---- MODULE Spec2Model ----
(***************************************************************************)
(* Model of learn_gmm.py (BASS): the held-out log-likelihood sweep `val`,  *)
(* the training draw of `train`, and the state assignment and grouping of  *)
(* `analyze_kinematics`.                                                    *)
(*                                                                         *)
(* A dataset of a condition is the sequence of its rows; a row is named by *)
(* its index, so datasets[s] = <<0, 1, .., N-1>> and a subsample of rows   *)
(* is the sequence of the indices drawn.  The raw tail angles of a         *)
(* condition are the sequence of the signs of the row means, the only      *)
(* thing the program reads from them.  numpy's process-wide generator is a *)
(* deterministic state machine: a linear congruential generator stands for *)
(* it.  The estimator (GMM.py) is external: a fitted model is the term     *)
(* built from what it was fitted on, and a log-likelihood is the term      *)
(* built from the model and the scored data.                               *)
(***************************************************************************)
EXTENDS Integers, Sequences, FiniteSets, TLC

\* ---------------------------------------------------------------- bounds
MaxN == 4         \* observations per condition in val: 1..MaxN
MaxObs == 3       \* observations per condition in train and analyze_kinematics
MaxReps == 2      \* n_reps of the second run of val
MaxCands == 2     \* number of candidate cluster counts
MaxK == 2         \* N_cluster of the trained/loaded model
MaxSeed == 1      \* args.Seed in 0..MaxSeed
RngMod == 16      \* number of states of the generator
NumConds == 2     \* args.Numdata (default 2)
NumTraces == 200  \* range(200): the traces plotted per cluster

VARIABLES
    args,            \* Type, Mode, Seed, N_cluster, Condition
    datasets,        \* one sequence of rows per condition
    tail_angles,     \* one sequence of row-mean signs per condition
    fitUsesRng,      \* whether the external solve() reads np.random
    rng,             \* state of np.random
    fn, pc, err,     \* function executing, position in it, uncaught exception
    split_size, n_reps, clusters,
    LLs, ci, j, s,
    datasets_train, datasets_test, subsample, model_fit,
    run, reps2, prevLLs,
    fits, saved,
    speeds, deltaheads, tails, states, post, i, kstate

vars == <<args, datasets, tail_angles, fitUsesRng, rng, fn, pc, err,
          split_size, n_reps, clusters, LLs, ci, j, s,
          datasets_train, datasets_test, subsample, model_fit,
          run, reps2, prevLLs, fits, saved,
          speeds, deltaheads, tails, states, post, i, kstate>>

valVars == <<split_size, n_reps, clusters, LLs, ci, j, run, reps2, prevLLs>>
kinVars == <<speeds, deltaheads, tails, states, post, i, kstate>>
envVars == <<args, datasets, tail_angles, fitUsesRng>>

\* ------------------------------------------------------- numpy operations
Range(q) == {q[p] : p \in 1..Len(q)}

Min(S) == CHOOSE x \in S : \A y \in S : x <= y

\* np.arange(a, b)
arange(a, b) == [p \in 1..(b - a) |-> a + p - 1]

\* data[idx]: fancy indexing with a sequence of 0-based row indices
Take(data, idx) == [p \in 1..Len(idx) |-> data[idx[p] + 1]]

\* data[:n] for n >= 0
Prefix(data, n) == SubSeq(data, 1, Min({n, Len(data)}))

\* one step of the generator
rng_next(st) == (5 * st + 3) % RngMod

RECURSIVE rng_skip(_, _)
rng_skip(st, n) == IF n <= 0 THEN st ELSE rng_skip(rng_next(st), n - 1)

\* np.random.choice(n, size): size draws with replacement from [0, n)
np_random_choice(st, n, size) ==
    [out |-> [p \in 1..size |-> (rng_skip(st, p) * n) \div RngMod],
     rng |-> rng_skip(st, size)]

\* a variant of np.delete that removes only the first index given
np_delete_first(data, idx) ==
    LET gone == IF Len(idx) = 0 THEN {} ELSE {idx[1]}
    IN  SelectSeq(data, LAMBDA r : r \notin gone)

\* np.delete(data, idx, axis=0): the rows whose index is not among idx, in order
np_delete(data, idx) == SelectSeq(data, LAMBDA r : r \notin Range(idx))

\* np.max in place of np.min
length_max(ds) == CHOOSE x \in {Len(ds[c]) : c \in 1..Len(ds)} :
                     \A c \in 1..Len(ds) : x >= Len(ds[c])

\* np.min([len(data) for data in datasets])
length_min(ds) == Min({Len(ds[c]) : c \in 1..Len(ds)})

\* np.random.seed(args.Seed) missing: the generator keeps its state
seed_kept(st, sd) == st

\* np.random.seed(args.Seed)
np_random_seed(st, sd) == sd % RngMod

\* LLs += [[v]] in place of LLs[-1] += [v]
record_new_list(lls, v) == Append(lls, <<v>>)

\* LLs[-1] += [v]
record_LL(lls, v) == [lls EXCEPT ![Len(lls)] = Append(@, v)]

\* the scan of np.argmax with >= in place of >: the last maximum
argmax_last(col, p, best) ==
    LET F[q \in p..(Len(col) + 1), b \in 1..Len(col)] ==
            IF q > Len(col) THEN b
            ELSE F[q + 1, IF col[q] >= col[b] THEN q ELSE b]
    IN  F[p, best]

\* the scan of np.argmax over col[p..], best being the first maximum so far
argmax_scan(col, p, best) ==
    LET F[q \in p..(Len(col) + 1), b \in 1..Len(col)] ==
            IF q > Len(col) THEN b
            ELSE F[q + 1, IF col[q] > col[b] THEN q ELSE b]
    IN  F[p, best]

\* np.argmax(posterior, axis=0): per observation, the 0-based row of the maximum
np_argmax_axis0(m, nobs) ==
    [o \in 1..nobs |-> argmax_scan([c \in 1..Len(m) |-> m[c][o]], 2, 1) - 1]

\* group[state] = [v] in place of group[state] += [v]
group_set(groups, state, v) == [groups EXCEPT ![state + 1] = <<v>>]

\* group[state] += [v]
group_add(groups, state, v) == [groups EXCEPT ![state + 1] = Append(@, v)]

\* GMM_model(k)
GMM_model(k) == [k |-> k, fitted |-> <<>>, init |-> -1]

\* model_fit.solve(datasets_train): the fitted model, and the generator after it
solve(m, train, st) ==
    [model |-> [k |-> m.k, fitted |-> train,
                init |-> IF fitUsesRng THEN st ELSE -1],
     rng |-> IF fitUsesRng THEN rng_skip(st, m.k) ELSE st]

\* model_fit.LL(datasets_test)
LL(m, test) == [model |-> m, test |-> test]

\* ------------------------------------------------------------------ Init
Args == [Type : {"train", "val"}, Mode : {"learn", "load"}, Seed : 0..MaxSeed,
         N_cluster : 1..MaxK, Condition : 0..(NumConds - 1)]

Datasets(max) == [1..NumConds -> {arange(0, n) : n \in 1..max}]

NoKin ==
    /\ speeds = <<>> /\ deltaheads = <<>> /\ tails = <<>>
    /\ states = <<>> /\ post = <<>> /\ i = 0 /\ kstate = 0

NoLocals ==
    /\ s = 0 /\ datasets_train = <<>> /\ datasets_test = <<>>
    /\ subsample = <<>> /\ model_fit = GMM_model(0)
    /\ fits = 0 /\ saved = FALSE /\ err = "none"

\* main() up to the call of val: clusters, split_size and n_reps are the caller's
InitVal ==
    /\ args \in {a \in Args : a.Type = "val" /\ a.Mode = "load"
                              /\ a.N_cluster = 1 /\ a.Condition = 0}
    /\ datasets \in Datasets(MaxN)
    /\ tail_angles = [c \in 1..NumConds |-> <<>>]
    /\ fitUsesRng \in BOOLEAN
    /\ rng = 0
    /\ fn = "val" /\ pc = "seed"
    /\ split_size \in (-1)..(MaxN + 1)
    /\ \E nc \in 1..MaxCands : clusters = arange(1, 1 + nc)
    /\ reps2 \in 1..MaxReps
    /\ n_reps \in 0..(reps2 - 1)
    /\ run = 1 /\ prevLLs = <<>>
    /\ LLs = <<>> /\ ci = 0 /\ j = 0
    /\ NoLocals /\ NoKin

\* main() up to the call of train (line 219)
InitTrain ==
    /\ args \in {a \in Args : a.Type = "train" /\ a.Seed = 0 /\ a.Condition = 0}
    /\ datasets \in Datasets(MaxObs)
    /\ tail_angles = [c \in 1..NumConds |-> <<>>]
    /\ fitUsesRng = FALSE
    /\ rng \in {0, 1}
    /\ fn = "train" /\ pc = "enter"
    /\ split_size \in IF args.Mode = "learn" THEN (-1)..(MaxObs + 1) ELSE {0}
    /\ clusters = <<>> /\ n_reps = 0 /\ reps2 = 0
    /\ run = 1 /\ prevLLs = <<>>
    /\ LLs = <<>> /\ ci = 0 /\ j = 0
    /\ NoLocals /\ NoKin

\* the row-mean signs of a raw signal array of n observations
TailSigns(n) == {[p \in 1..n |-> 1], [p \in 1..n |-> -1],
                 [p \in 1..n |-> IF p % 2 = 1 THEN 1 ELSE -1]}

\* main() up to the call of analyze_kinematics (line 222), the model trained or loaded
InitKin ==
    /\ args \in {a \in Args : a.Type = "train" /\ a.Mode = "load" /\ a.Seed = 0}
    /\ \E n \in 1..MaxObs : datasets = [c \in 1..NumConds |-> arange(0, n)]
    /\ \E d \in {-1, 0, 1} :
         \E ta \in TailSigns(Len(datasets[args.Condition + 1]) + d) :
            tail_angles = [c \in 1..NumConds |->
                              IF c = args.Condition + 1 THEN ta
                              ELSE [p \in 1..Len(datasets[c]) |-> 1]]
    /\ fitUsesRng = FALSE
    /\ rng = 0
    /\ fn = "analyze_kinematics" /\ pc = "enter"
    /\ split_size = 0
    /\ clusters = <<>> /\ n_reps = 0 /\ reps2 = 0
    /\ run = 1 /\ prevLLs = <<>>
    /\ LLs = <<>> /\ ci = 0 /\ j = 0
    /\ s = 0 /\ datasets_train = <<>> /\ datasets_test = <<>>
    /\ subsample = <<>> /\ model_fit = GMM_model(args.N_cluster)
    /\ fits = 0 /\ saved = FALSE /\ err = "none"
    /\ NoKin

Init == InitVal \/ InitTrain \/ InitKin

Raise(e) == /\ pc' = "error" /\ err' = e

\* ------------------------------------------------------------------- val
\* lines 79-80
ValSeed ==
    /\ fn = "val" /\ pc = "seed"
    /\ rng' = np_random_seed(rng, args.Seed)
    /\ LLs' = <<>> /\ ci' = 0 /\ j' = 0
    /\ pc' = "clusters"
    /\ UNCHANGED <<envVars, fn, err, split_size, n_reps, clusters, s,
                   datasets_train, datasets_test, subsample, model_fit,
                   run, reps2, prevLLs, fits, saved, kinVars>>

\* lines 81-83: the head of the loop over the candidate cluster counts
ValCluster ==
    /\ fn = "val" /\ pc = "clusters"
    /\ IF ci < Len(clusters)
       THEN /\ ci' = ci + 1
            /\ LLs' = Append(LLs, <<>>)
            /\ j' = 0
            /\ pc' = "reps"
       ELSE /\ pc' = "plot"
            /\ UNCHANGED <<ci, LLs, j>>
    /\ UNCHANGED <<envVars, rng, fn, err, split_size, n_reps, clusters, s,
                   datasets_train, datasets_test, subsample, model_fit,
                   run, reps2, prevLLs, fits, saved, kinVars>>

\* lines 84-90: the head of the loop over the repetitions, and the allocations
ValRep ==
    /\ fn = "val" /\ pc = "reps"
    /\ IF j >= n_reps
       THEN /\ pc' = "clusters"
            /\ UNCHANGED <<err, model_fit, datasets_train, datasets_test, s>>
       ELSE /\ model_fit' = GMM_model(clusters[ci])
            /\ IF split_size < 0 \/ length_min(datasets) - split_size < 0
               THEN \* np.zeros: negative dimensions are not allowed
                    /\ Raise("ValueError")
                    /\ UNCHANGED <<datasets_train, datasets_test, s>>
               ELSE /\ datasets_train' = [c \in 1..Len(datasets) |-> <<>>]
                    /\ datasets_test' = [c \in 1..Len(datasets) |-> <<>>]
                    /\ s' = 0
                    /\ pc' = "split"
                    /\ UNCHANGED err
    /\ UNCHANGED <<envVars, rng, fn, split_size, n_reps, clusters, LLs, ci, j,
                   subsample, run, reps2, prevLLs, fits, saved, kinVars>>

\* datasets_test[s] = rows: the shapes must agree, a single row is broadcast
AssignRows(rows, n) ==
    IF Len(rows) = n THEN rows
    ELSE IF Len(rows) = 1 THEN [p \in 1..n |-> rows[1]]
    ELSE <<"shape">>

\* lines 92-95: one pass of the loop over the conditions
ValSplit ==
    /\ fn = "val" /\ pc = "split"
    /\ IF s >= Len(datasets)
       THEN /\ pc' = "solve"
            /\ UNCHANGED <<rng, s, subsample, datasets_train, datasets_test, err>>
       ELSE LET data == datasets[s + 1]
                drawn == np_random_choice(rng, Len(data), split_size)
                n == length_min(datasets) - split_size
                rest == Prefix(np_delete(data, drawn.out), n)
            IN  /\ rng' = drawn.rng
                /\ subsample' = drawn.out
                /\ datasets_train' =
                      [datasets_train EXCEPT ![s + 1] = Take(data, drawn.out)]
                /\ IF Len(rest) = n \/ Len(rest) = 1
                   THEN /\ datasets_test' =
                             [datasets_test EXCEPT ![s + 1] = AssignRows(rest, n)]
                        /\ s' = s + 1
                        /\ UNCHANGED <<pc, err>>
                   ELSE \* could not broadcast input array
                        /\ Raise("ValueError")
                        /\ UNCHANGED <<datasets_test, s>>
    /\ UNCHANGED <<envVars, fn, split_size, n_reps, clusters, LLs, ci, j,
                   model_fit, run, reps2, prevLLs, fits, saved, kinVars>>

\* line 97: the fit succeeds
ValSolve ==
    /\ fn = "val" /\ pc = "solve"
    /\ LET r == solve(model_fit, datasets_train, rng)
       IN  /\ model_fit' = r.model
           /\ rng' = r.rng
    /\ fits' = fits + 1
    /\ pc' = "record"
    /\ UNCHANGED <<envVars, fn, err, split_size, n_reps, clusters, LLs, ci, j, s,
                   datasets_train, datasets_test, subsample,
                   run, reps2, prevLLs, saved, kinVars>>

\* line 97: the fit raises; nothing in val catches it
ValSolveFails ==
    /\ fn = "val" /\ pc = "solve"
    /\ Raise("ModelFitError")
    /\ UNCHANGED <<envVars, rng, fn, split_size, n_reps, clusters, LLs, ci, j, s,
                   datasets_train, datasets_test, subsample, model_fit,
                   run, reps2, prevLLs, fits, saved, kinVars>>

\* line 98
ValRecord ==
    /\ fn = "val" /\ pc = "record"
    /\ LLs' = record_LL(LLs, LL(model_fit, datasets_test))
    /\ j' = j + 1
    /\ pc' = "reps"
    /\ UNCHANGED <<envVars, rng, fn, err, split_size, n_reps, clusters, ci, s,
                   datasets_train, datasets_test, subsample, model_fit,
                   run, reps2, prevLLs, fits, saved, kinVars>>

\* lines 100-115: the figure of the held-out log-likelihoods
ValPlot ==
    /\ fn = "val" /\ pc = "plot"
    /\ pc' = "done"
    /\ UNCHANGED <<envVars, rng, fn, err, split_size, n_reps, clusters, LLs, ci,
                   j, s, datasets_train, datasets_test, subsample, model_fit,
                   run, reps2, prevLLs, fits, saved, kinVars>>

\* the caller runs val again on the same data with more repetitions
ValAgain ==
    /\ fn = "val" /\ pc = "done" /\ run = 1
    /\ run' = 2
    /\ prevLLs' = LLs
    /\ n_reps' = reps2
    /\ LLs' = <<>> /\ ci' = 0 /\ j' = 0 /\ s' = 0
    /\ datasets_train' = <<>> /\ datasets_test' = <<>>
    /\ subsample' = <<>> /\ model_fit' = GMM_model(0)
    /\ pc' = "seed"
    /\ UNCHANGED <<envVars, rng, fn, err, split_size, clusters,
                   reps2, fits, saved, kinVars>>

NextVal ==
    \/ ValSeed \/ ValCluster \/ ValRep \/ ValSplit
    \/ ValSolve \/ ValSolveFails \/ ValRecord \/ ValPlot \/ ValAgain

SpecVal == InitVal /\ [][NextVal]_vars

\* ----------------------------------------------------------------- train
\* lines 43-46 (mode 'learn') and lines 43, 57-63 (mode 'load')
TrainEnter ==
    /\ fn = "train" /\ pc = "enter"
    /\ IF args.Mode = "learn"
       THEN /\ model_fit' = GMM_model(args.N_cluster)
            /\ IF split_size < 0
               THEN \* np.zeros: negative dimensions are not allowed
                    /\ Raise("ValueError")
                    /\ UNCHANGED <<datasets_train, s>>
               ELSE /\ datasets_train' = [c \in 1..Len(datasets) |-> <<>>]
                    /\ s' = 0
                    /\ pc' = "split"
                    /\ UNCHANGED err
       ELSE \* _read_params of the three arrays loaded
            /\ model_fit' = [GMM_model(args.N_cluster) EXCEPT !.fitted = <<"loaded">>]
            /\ pc' = "returned"
            /\ UNCHANGED <<datasets_train, s, err>>
    /\ UNCHANGED <<envVars, rng, fn, valVars, datasets_test, subsample,
                   fits, saved, kinVars>>

\* lines 48-50: one pass of the loop over the conditions
TrainSplit ==
    /\ fn = "train" /\ pc = "split"
    /\ IF s >= Len(datasets)
       THEN /\ pc' = "solve"
            /\ UNCHANGED <<rng, s, subsample, datasets_train>>
       ELSE LET data == datasets[s + 1]
                drawn == np_random_choice(rng, Len(data), split_size)
            IN  /\ rng' = drawn.rng
                /\ subsample' = drawn.out
                /\ datasets_train' =
                      [datasets_train EXCEPT ![s + 1] = Take(data, drawn.out)]
                /\ s' = s + 1
                /\ UNCHANGED pc
    /\ UNCHANGED <<envVars, fn, err, valVars, datasets_test, model_fit,
                   fits, saved, kinVars>>

\* line 52: the fit succeeds
TrainSolve ==
    /\ fn = "train" /\ pc = "solve"
    /\ LET r == solve(model_fit, datasets_train, rng)
       IN  /\ model_fit' = r.model
           /\ rng' = r.rng
    /\ fits' = fits + 1
    /\ pc' = "save"
    /\ UNCHANGED <<envVars, fn, err, valVars, s, datasets_train, datasets_test,
                   subsample, saved, kinVars>>

\* line 52: the fit raises
TrainSolveFails ==
    /\ fn = "train" /\ pc = "solve"
    /\ Raise("ModelFitError")
    /\ UNCHANGED <<envVars, rng, fn, valVars, s, datasets_train, datasets_test,
                   subsample, model_fit, fits, saved, kinVars>>

\* lines 53-55: the three parameter files are written, the model returned
TrainSave ==
    /\ fn = "train" /\ pc = "save"
    /\ saved' = TRUE
    /\ pc' = "returned"
    /\ UNCHANGED <<envVars, rng, fn, err, valVars, s, datasets_train,
                   datasets_test, subsample, model_fit, fits, kinVars>>

NextTrain ==
    \/ TrainEnter \/ TrainSplit \/ TrainSolve \/ TrainSolveFails \/ TrainSave

SpecTrain == InitTrain /\ [][NextTrain]_vars

\* ---------------------------------------------------- analyze_kinematics
\* line 135 and line 136
ta == tail_angles[args.Condition + 1]

data == datasets[args.Condition + 1]

\* line 137: len(model_fit.means_)
n_cluster == model_fit.k

\* model_fit._compute_posterior(data, condition): clusters x observations, every
\* column a distribution over the clusters (probabilities in halves)
Posteriors(k, nobs) ==
    {m \in [1..k -> [1..nobs -> 0..2]] :
        \A o \in 1..nobs :
           LET Sum[c \in 0..k] == IF c = 0 THEN 0 ELSE Sum[c - 1] + m[c][o]
           IN  Sum[k] = 2}

\* lines 131-142
KinInit ==
    /\ fn = "analyze_kinematics" /\ pc = "enter"
    /\ speeds' = [c \in 1..n_cluster |-> <<>>]
    /\ deltaheads' = [c \in 1..n_cluster |-> <<>>]
    /\ tails' = [c \in 1..n_cluster |-> <<>>]
    /\ pc' = "states"
    /\ UNCHANGED <<envVars, rng, fn, err, valVars, s, datasets_train,
                   datasets_test, subsample, model_fit, fits, saved,
                   states, post, i, kstate>>

\* line 144
KinStates ==
    /\ fn = "analyze_kinematics" /\ pc = "states"
    /\ \E m \in Posteriors(n_cluster, Len(data)) :
          /\ post' = m
          /\ states' = np_argmax_axis0(m, Len(data))
    /\ i' = 0
    /\ pc' = "group"
    /\ UNCHANGED <<envVars, rng, fn, err, valVars, s, datasets_train,
                   datasets_test, subsample, model_fit, fits, saved,
                   speeds, deltaheads, tails, kstate>>

\* lines 145-148: one pass of the grouping loop
KinGroup ==
    /\ fn = "analyze_kinematics" /\ pc = "group"
    /\ IF i >= Len(states)
       THEN /\ pc' = "summary"
            /\ kstate' = 0
            /\ UNCHANGED <<speeds, deltaheads, tails, i, err>>
       ELSE LET state == states[i + 1]
            IN  /\ speeds' = group_add(speeds, state, data[i + 1])
                /\ deltaheads' = group_add(deltaheads, state, data[i + 1])
                /\ IF i < Len(ta)
                   THEN /\ tails' = group_add(tails, state, ta[i + 1])
                        /\ i' = i + 1
                        /\ UNCHANGED <<pc, err>>
                   ELSE \* ta[i]: index out of bounds
                        /\ Raise("IndexError")
                        /\ UNCHANGED <<tails, i>>
                /\ UNCHANGED kstate
    /\ UNCHANGED <<envVars, rng, fn, valVars, s, datasets_train, datasets_test,
                   subsample, model_fit, fits, saved, states, post>>

\* arr[np.mean(arr, axis=1) > 0]
positive_rows(group) == SelectSeq(group, LAMBDA m : m > 0)

\* lines 153-182: one pass of the loop over the states; lines 184-203 after it
KinSummary ==
    /\ fn = "analyze_kinematics" /\ pc = "summary"
    /\ IF kstate >= n_cluster
       THEN \* the two histogram figures are saved
            /\ pc' = "done"
            /\ UNCHANGED <<kstate, err>>
       ELSE IF Len(tails[kstate + 1]) = 0
       THEN \* np.mean(arr, axis=1) of a 1-d array: axis 1 is out of bounds
            /\ Raise("AxisError")
            /\ UNCHANGED kstate
       ELSE IF Len(positive_rows(tails[kstate + 1])) < NumTraces
       THEN \* arrs_fil0[num]: index out of bounds
            /\ Raise("IndexError")
            /\ UNCHANGED kstate
       ELSE /\ kstate' = kstate + 1
            /\ UNCHANGED <<pc, err>>
    /\ UNCHANGED <<envVars, rng, fn, valVars, s, datasets_train, datasets_test,
                   subsample, model_fit, fits, saved,
                   speeds, deltaheads, tails, states, post, i>>

NextKin == KinInit \/ KinStates \/ KinGroup \/ KinSummary

SpecKin == InitKin /\ [][NextKin]_vars

Next == NextVal \/ NextTrain \/ NextKin

Spec == Init /\ [][Next]_vars

\* ------------------------------------------------------- claims about val
InSweep == fn = "val" /\ pc \in {"clusters", "reps", "split", "solve", "record", "plot", "done"}

InTrial == fn = "val" /\ pc \in {"split", "solve", "record"}

Recorded == {t \in (1..Len(LLs)) \X (1..(MaxReps + 1)) : t[2] <= Len(LLs[t[1]])}

HasDuplicates(q) == Len(q) > Cardinality(Range(q))

\* the split a recorded scalar was computed on: training rows and held-out rows
SplitOf(ll) == <<ll.model.fitted, ll.test>>

C2_FailedFitAbortsOnlyItsTrial ==
    (fn = "val" /\ pc \in {"done", "error"} /\ err = "ModelFitError") =>
        /\ Len(LLs) = Len(clusters)
        /\ Cardinality(Recorded) >= Len(clusters) * n_reps - 1

\* C3: during the sweep of val LLs holds one sequence per candidate reached, each
\* but the last with exactly n_reps scalars and the last with at most n_reps, every
\* scalar being of the candidate of its sequence; when val completes LLs holds one
\* sequence of exactly n_reps scalars per candidate, in the order of the candidates.
C3_LLsShape ==
    InSweep =>
        /\ Len(LLs) = ci
        /\ \A c \in 1..Len(LLs) :
              /\ Len(LLs[c]) <= n_reps
              /\ c < Len(LLs) => Len(LLs[c]) = n_reps
              /\ \A jj \in 1..Len(LLs[c]) : LLs[c][jj].model.k = clusters[c]
        /\ pc \in {"plot", "done"} =>
              /\ Len(LLs) = Len(clusters)
              /\ \A c \in 1..Len(LLs) : Len(LLs[c]) = n_reps

C3_Witness ==
    /\ fn = "val" /\ pc = "done" /\ run = 2
    /\ Len(LLs) = 2 /\ Len(LLs[1]) = 2 /\ Len(LLs[2]) = 2

\* C5: in every trial of val and for every condition, the held-out rows contain no
\* row drawn for training (duplicates among the draws kept), and they are the first
\* length_min - split_size rows, in increasing index order, of the rows not drawn.
C5_HeldOutIsComplementPrefix ==
    (InTrial /\ s >= 1) =>
        LET held == datasets_test[s]
            notDrawn == Range(datasets[s]) \ Range(subsample)
        IN  /\ Len(datasets_train[s]) = split_size
            /\ datasets_train[s] = subsample
            /\ Range(held) \cap Range(subsample) = {}
            /\ Range(held) \subseteq notDrawn
            /\ Len(held) = Min({Len(datasets[c]) : c \in 1..NumConds}) - split_size
            /\ \A p \in 1..(Len(held) - 1) : held[p] < held[p + 1]
            /\ \A x \in notDrawn \ Range(held) : \A y \in Range(held) : y < x

C5_Witness ==
    /\ InTrial /\ s >= 1
    /\ HasDuplicates(subsample)
    /\ Len(datasets_test[s]) >= 1
    /\ Cardinality(Range(datasets[s]) \ Range(subsample)) > Len(datasets_test[s])

\* C10: in every trial of val with 0 <= split_size <= the least condition size, no
\* allocation or assignment fails, and the held-out rows of every condition handled
\* are exactly (least condition size) - split_size distinct rows.
C10_HeldOutIsRectangular ==
    (fn = "val" /\ 0 <= split_size
               /\ \A c \in 1..NumConds : split_size <= Len(datasets[c])) =>
        /\ err # "ValueError"
        /\ InTrial =>
              \A c \in 1..s :
                 /\ \A d \in 1..NumConds :
                       Len(datasets_test[c]) <= Len(datasets[d]) - split_size
                 /\ \E d \in 1..NumConds :
                       Len(datasets_test[c]) = Len(datasets[d]) - split_size
                 /\ ~HasDuplicates(datasets_test[c])

C10_Witness ==
    /\ InTrial /\ s = NumConds
    /\ Len(datasets[1]) # Len(datasets[2])
    /\ HasDuplicates(subsample)
    /\ Len(datasets_test[1]) >= 1

\* ----------------------------------------------------- claims about train
BadSize == split_size < 0 \/ \E c \in 1..NumConds : split_size > Len(datasets[c])

\* C4: a draw of train (mode 'learn') or of val whose split_size is negative or
\* greater than the number of observations of some condition ends in an error
\* before any model is fitted, any trial result recorded or any parameter file
\* written.
C4_BadSizeFailsBeforeFit ==
    (BadSize /\ (fn = "train" => args.Mode = "learn")) =>
        /\ fits = 0
        /\ ~saved
        /\ \A c \in 1..Len(LLs) : LLs[c] = <<>>
        /\ pc # "returned"

\* ------------------------------------------- claims about analyze_kinematics
Labelled == fn = "analyze_kinematics" /\ post # <<>>

Count(q, v) == Cardinality({p \in 1..Len(q) : q[p] = v})

\* C6: the label of every observation is a cluster index in [0, n_cluster) whose
\* posterior is maximal in the observation's column, no cluster of lower index
\* reaches that maximum, and with a single cluster every label is 0.
C6_LabelIsFirstArgmax ==
    Labelled =>
        /\ Len(states) = Len(data)
        /\ \A o \in 1..Len(states) :
              /\ states[o] \in 0..(n_cluster - 1)
              /\ \A c \in 1..n_cluster : post[c][o] <= post[states[o] + 1][o]
              /\ \A c \in 1..states[o] : post[c][o] < post[states[o] + 1][o]
              /\ n_cluster = 1 => states[o] = 0

C6_Witness ==
    /\ Labelled /\ n_cluster = 2 /\ Len(states) >= 2
    /\ \E o \in 1..Len(states) : post[1][o] = post[2][o]
    /\ \E o \in 1..Len(states) : post[1][o] < post[2][o]

\* C7: in the grouping loop every observation handled has contributed exactly one
\* entry to the group of its label and none to any other group, and no other
\* observation has contributed; after the loop the groups partition the
\* observations and their sizes sum to the number of observations.
C7_GroupsPartitionObservations ==
    (fn = "analyze_kinematics" /\ pc \in {"group", "summary", "done"}) =>
        LET handled == IF pc = "group" THEN i ELSE Len(data)
            Size[c \in 0..n_cluster] ==
                IF c = 0 THEN 0 ELSE Size[c - 1] + Len(speeds[c])
        IN  /\ \A o \in 1..Len(data) : \A c \in 1..n_cluster :
                  /\ Count(speeds[c], data[o]) =
                        (IF o <= handled /\ states[o] = c - 1 THEN 1 ELSE 0)
                  /\ Count(deltaheads[c], data[o]) = Count(speeds[c], data[o])
            /\ \A c \in 1..n_cluster : Len(tails[c]) = Len(speeds[c])
            /\ Size[n_cluster] = handled

C7_Witness ==
    /\ fn = "analyze_kinematics" /\ pc = "summary"
    /\ n_cluster = 2 /\ Len(data) = 3
    /\ Len(speeds[1]) = 1 /\ Len(speeds[2]) = 2

\* C8: when the groups are built and a cluster has received no observation, the
\* statistics of every cluster are still computed: no error is raised on the
\* empty group.
C8_EmptyGroupIsNoError ==
    (fn = "analyze_kinematics" /\ pc = "error" /\ i = Len(data)) =>
        Len(tails[kstate + 1]) > 0

\* C9: when the raw signal array of the analysed condition has another number of
\* observations than the feature matrix, no observation is ever added to a group
\* and the aggregation never completes.
C9_MismatchFailsAtBoundary ==
    (fn = "analyze_kinematics" /\ Len(ta) # Len(data)) =>
        /\ \A c \in 1..Len(speeds) : speeds[c] = <<>> /\ tails[c] = <<>>
        /\ pc \notin {"summary", "done"}

====
